---- MODULE Spec2Model ----
(***************************************************************************)
(* The match route of the clinical trial matcher: the POST handler of      *)
(* frontend/app/api/match/route.js and its rate-limited variant            *)
(* (unnamed/part_001), as a state machine.  A request is cut into the      *)
(* segments between its awaits: arrival (headers, rate check), the         *)
(* resolution of request.json(), of import('groq-sdk') and of              *)
(* groq.chat.completions.create().  Requests in flight interleave at       *)
(* these awaits and share the userRequests map.                            *)
(***************************************************************************)
EXTENDS Bags, FiniteSets, Integers, Sequences, TLC

\* ---------------------------------------------------------------- bounds

\* Requests that may be in flight (suspended at an await) at the same time.
MaxInFlight == 2
\* Requests of one identity that arrive at the rate-limited route, where the
\* quota is followed to its end.
MaxArrivals == 12
\* Requests of one identity that arrive at the rate-limited route, where the
\* handler's paths are followed for every input.
MaxFlowArrivals == 1
\* The last fixed window of wall-clock time that is looked at (windows 0..MaxWindow).
MaxWindow == 1
\* the longest matches list drawn for the report
MaxMatches == 2

\* ------------------------------------------------------ program constants

MAX_REQUESTS_PER_IP == 10
\* completion.choices[0].message.content.slice(0, 200)
EXPLANATION_SLICE == 200
\* results.matches.slice(0, 5) of the report
REPORT_TRIALS == 5
\* .substring(0, 300) of the report's analysis text
ANALYSIS_SUBSTRING == 300

SAMPLE_TRIALS ==
  << [nct_id |-> "NCT04743505", title |-> "Study of Novel Therapy for Lung Cancer",
      conditions |-> "Non-Small Cell Lung Cancer", phase |-> "Phase 3"],
     [nct_id |-> "NCT05745350", title |-> "Diabetes Management Trial",
      conditions |-> "Type 2 Diabetes", phase |-> "Phase 2"] >>

Statuses == {"ELIGIBLE", "NOT_ELIGIBLE", "NEEDS_REVIEW"}

\* ----------------------------------------------------------------- inputs

\* The two header values the handler reads; "" is an absent header (get() gives null).
Headers == [xff : {"", "1.2.3.4"}, xri : {"", "5.6.7.8"}]

\* a key that prefers x-real-ip
ClientIpRealFirst(h) == IF h.xri # "" THEN h.xri ELSE IF h.xff # "" THEN h.xff ELSE "unknown"

\* const ip = headers.get('x-forwarded-for') || headers.get('x-real-ip') || 'unknown'
ClientIp(h) == IF h.xff # "" THEN h.xff ELSE IF h.xri # "" THEN h.xri ELSE "unknown"

Identities == {ClientIp(h) : h \in Headers}

\* What request.json() gives: a rejection (kind "unparseable"), the JSON value
\* null, or an object.  A missing field reads as "undefined".
\* Of the object only age and conditions are kept (the fields a profile is
\* valid by); gender, medications and biomarkers only pass into the prompt.
NoBody == [kind |-> "none", age |-> 0, conditions |-> "undefined"]
ValidBody == [kind |-> "object", age |-> 55, conditions |-> "Non-Small Cell Lung Cancer"]
Bodies ==
  { [kind |-> "unparseable", age |-> 0, conditions |-> "undefined"],
    [kind |-> "null", age |-> 0, conditions |-> "undefined"],
    [kind |-> "object", age |-> 55, conditions |-> "undefined"],
    [kind |-> "object", age |-> 55, conditions |-> ""],
    [kind |-> "object", age |-> 150, conditions |-> "Non-Small Cell Lung Cancer"],
    ValidBody }

\* The text of a model response: the status token it mentions ("none" when it
\* mentions no recognizable one) and its length in characters.
NoText == [says |-> "none", len |-> 0]
Contents == [says : Statuses \cup {"none"}, len : {0, EXPLANATION_SLICE, EXPLANATION_SLICE + 1}]

\* one model response, where the text does not matter
OneText == [says |-> "ELIGIBLE", len |-> EXPLANATION_SLICE]

\* How groq.chat.completions.create() settles: it rejects (timeout, provider
\* rate limit, network error), it resolves to a completion without a usable
\* choices[0].message.content, or it resolves to a completion with content.
LlmOutcomes == {"threw", "nocontent", "ok"}

Routes == {"plain", "limited"}

\* ------------------------------------------------------------------ state

VARIABLES
  userRequests,   \* the Map of part_001: identity -> count, absent keys not in DOMAIN
  hasEnvKey,      \* process.env.GROQ_API_KEY is set
  inflight,       \* bag of the requests suspended at an await
  done,           \* the request that responded in the step just taken, with its response
  window,         \* the fixed window the wall clock is in
  fresh,          \* the step just taken was the first arrival of a new window
  arrived,        \* per identity, the requests that reached the rate check
  admitted,       \* per identity, those of them that passed it
  completed,      \* per identity, those of them whose LLM call returned a completion
  proxy,          \* the request of the proxy variant of the route (part_000)
  report,         \* the report rendered last (PDFReport.js)
  page            \* the state of the page (page.js): loading, results, activeTab, the submit

vars ==
  << userRequests, hasEnvKey, inflight, done, window, fresh, arrived, admitted, completed,
     proxy, report, page >>

\* what the match route leaves alone
others == << proxy, report, page >>

\* userRequests.get(ip) || 0
Get(map, ip) == IF ip \in DOMAIN map THEN map[ip] ELSE 0

\* userRequests.set(ip, n)
Set(map, ip, n) == [k \in DOMAIN map \cup {ip} |-> IF k = ip THEN n ELSE map[k]]

EmptyMap == [k \in {} |-> 0]

\* ------------------------------------------------------------- responses

NoMatch == << >>

\* NextResponse.json({ message, matches }, { status })
JsonOk(status, message, matches) ==
  [status |-> status, keys |-> {"message", "matches"}, message |-> message,
   matches |-> matches, error |-> ""]

\* NextResponse.json({ error }, { status })
JsonError(status, error) ==
  [status |-> status, keys |-> {"error"}, message |-> "", matches |-> NoMatch,
   error |-> error]

\* a catch block that passes the error on to the caller
CatchLeaks(error) == JsonError(500, error)

\* the catch block: the error is logged, the response is fixed
Catch(error) == JsonError(500, "Failed to process request")

NoResponse ==
  [status |-> 0, keys |-> {}, message |-> "", matches |-> NoMatch, error |-> ""]

\* a denial that answers in the shape of an error
RateLimitedAsError ==
  JsonError(429, "You've reached the free usage limit (10 searches). Please contact for unlimited access.")

\* the 429 response of the rate check
RateLimited ==
  JsonOk(429, "You've reached the free usage limit (10 searches). Please contact for unlimited access.",
         NoMatch)

\* a title: a literal, and what is appended to it
Title(text, appended) == << text, appended >>

\* the demonstration response: one placeholder match
DemoResponse(patientData) ==
  JsonOk(200, "Running in demo mode (no API key configured)",
         << [nct_id |-> "NCT-DEMO-001",
             title |-> Title("Demo Trial for ", patientData.conditions),
             status |-> "NEEDS_REVIEW",
             explanation |-> [says |-> "none", len |-> 60]] >>)

\* String.prototype.slice(0, n) on a text
Slice(text, n) == [says |-> text.says, len |-> IF text.len < n THEN text.len ELSE n]

\* a response whose status is the token found in the model's text
AnalysisResponseOfToken(content) ==
  JsonOk(200, "Analysis complete",
         << [nct_id |-> "NCT04743505",
             title |-> Title("Lung Cancer Study", ""),
             status |-> content.says,
             explanation |-> Slice(content, EXPLANATION_SLICE)] >>)

\* the response after the completion
AnalysisResponse(content) ==
  JsonOk(200, "Analysis complete",
         << [nct_id |-> "NCT04743505",
             title |-> Title("Lung Cancer Study", ""),
             status |-> "ELIGIBLE",
             explanation |-> Slice(content, EXPLANATION_SLICE)] >>)

\* ------------------------------------------------------------- requests

NoPrompt == [age |-> 0, conditions |-> "undefined", trials |-> << >>]

\* the analysis prompt: the template's interpolations that are kept
Prompt(patientData) ==
  [age |-> patientData.age, conditions |-> patientData.conditions, trials |-> SAMPLE_TRIALS]

\* a request suspended at an await: pc names the promise it waits for
Request(rt, h, ip, userCount, body, pc, prompt) ==
  [route |-> rt, headers |-> h, ip |-> ip, userCount |-> userCount, body |-> body,
   pc |-> pc, prompt |-> prompt]

\* the steps a request has taken when it is suspended at (or responds from) pc
Work(rt, pc) ==
  (IF rt = "limited" THEN {"rateCheck"} ELSE {})
  \cup CASE pc = "arrive" -> {}
         [] pc = "json"   -> {"json"}
         [] pc = "demo"   -> {"json", "demo"}
         [] pc = "import" -> {"json", "import"}
         [] pc = "prompt" -> {"json", "import", "prompt"}
         [] pc = "create" -> {"json", "import", "prompt", "create"}
         [] pc = "set"    -> {"json", "import", "prompt", "create"}
                             \cup (IF rt = "limited" THEN {"set"} ELSE {})

\* a finished request: what it was, what it did, the error it threw ("none"
\* when it threw none), what the LLM did, the response
Finished(r, work, error, llm, content, resp) ==
  [route |-> r.route, headers |-> r.headers, ip |-> r.ip, userCount |-> r.userCount,
   body |-> r.body, prompt |-> r.prompt, work |-> work, error |-> error, llm |-> llm,
   content |-> content, resp |-> resp]

\* the headers of a request whose headers are not read
NoHeaders == [xff |-> "", xri |-> ""]

NoRequest == Request("none", NoHeaders, "", 0, NoBody, "arrive", NoPrompt)

\* no request responded in the step just taken
Silent == Finished(NoRequest, {}, "none", "none", NoText, NoResponse)

Suspended(pc) == {r \in BagToSet(inflight) : r.pc = pc}

Suspend(r) == inflight (+) SetToBag({r})

Resume(r) == inflight (-) SetToBag({r})

\* the response leaves the handler
Respond(r, pc, llm, content, resp) ==
  done' = Finished(r, Work(r.route, pc), "none", llm, content, resp)

\* an error thrown after the steps of pc: the try block ends in the catch block
Throw(r, pc, error, llm) ==
  done' = Finished(r, Work(r.route, pc), error, llm, NoText, Catch(error))

\* no request at the proxy variant
NoProxy ==
  [pc |-> "idle", body |-> NoBody, error |-> "none", backend |-> NoResponse,
   resp |-> NoResponse]

\* no report rendered
NoReport ==
  [rendered |-> FALSE, patient |-> NoBody, results |-> NoResponse,
   eligibleCount |-> 0, notEligibleCount |-> 0, reviewCount |-> 0, totalCount |-> 0,
   cards |-> << >>]

\* ------------------------------------------------------------- the report

\* results.matches is there (an error body has no such key)
HasMatches(results) == "matches" \in results.keys

\* a filter that keeps every match
FilterCountAll(results, status) == IF HasMatches(results) THEN Len(results.matches) ELSE 0

\* results.matches?.filter(m => m.status === status).length || 0
FilterCount(results, status) ==
  IF HasMatches(results)
    THEN Cardinality({i \in DOMAIN results.matches : results.matches[i].status = status})
    ELSE 0

eligibleCount(results) == FilterCount(results, "ELIGIBLE")

notEligibleCount(results) == FilterCount(results, "NOT_ELIGIBLE")

reviewCount(results) == FilterCount(results, "NEEDS_REVIEW")

\* results.matches?.length || 0
totalCount(results) == IF HasMatches(results) THEN Len(results.matches) ELSE 0

\* match.status?.replace('_', ' ') || 'UNKNOWN'
StatusLabel(status) ==
  CASE status = "NOT_ELIGIBLE" -> "NOT ELIGIBLE"
    [] status = "NEEDS_REVIEW" -> "NEEDS REVIEW"
    [] status = "" -> "UNKNOWN"
    [] OTHER -> status

\* an analysis text that is not cut
SubstringNone(len, n) == len

\* the length of String.prototype.substring(0, n) of a text of length len
Substring(len, n) == IF len < n THEN len ELSE n

\* patient.conditions || 'condition'
ConditionsOr(patient) ==
  IF patient.conditions \in {"undefined", ""} THEN "condition" ELSE patient.conditions

\* the length of the analysis text of a card
AnalysisText(patient, match) ==
  IF match.explanation.len > 0
    THEN Substring(Len("Based on the patient's ") + Len(ConditionsOr(patient))
                     + Len(" and biomarkers, this trial appears to be a ")
                     + Len(IF match.status = "ELIGIBLE" THEN "good" ELSE "potential")
                     + Len(" match. ") + match.explanation.len,
                   ANALYSIS_SUBSTRING)
    ELSE Len("Detailed eligibility analysis requires consultation with the trial coordinator.")

\* the card of one match
TrialCard(patient, match) ==
  [nct_id |-> match.nct_id, status |-> StatusLabel(match.status),
   analysis |-> AnalysisText(patient, match)]

\* the document: the four counts and a card for each of the first five matches
TrialReport(patient, results) ==
  [rendered |-> TRUE, patient |-> patient, results |-> results,
   eligibleCount |-> eligibleCount(results),
   notEligibleCount |-> notEligibleCount(results),
   reviewCount |-> reviewCount(results),
   totalCount |-> totalCount(results),
   cards |-> IF HasMatches(results)
               THEN [i \in {j \in DOMAIN results.matches : j <= REPORT_TRIALS} |->
                       TrialCard(patient, results.matches[i])]
               ELSE << >>]

\* ---------------------------------------------------------------- the page

\* useState(null)
Null == NoResponse

\* the page after useState(false), useState(null), useState('form'); no submit
NoPage == [loading |-> FALSE, results |-> Null, activeTab |-> "form", pc |-> "idle"]

\* ------------------------------------------------------------------ Init

Init ==
  /\ userRequests = EmptyMap
  /\ hasEnvKey \in BOOLEAN
  /\ inflight = EmptyBag
  /\ done = Silent
  /\ window = 0
  /\ fresh = FALSE
  /\ arrived = [ip \in Identities |-> 0]
  /\ admitted = [ip \in Identities |-> 0]
  /\ completed = [ip \in Identities |-> 0]
  /\ proxy = NoProxy
  /\ report = NoReport
  /\ page = NoPage

\* ---------------------------------------------------------------- actions

\* a handler that starts every window with a count of zero
ReadCountOfWindow(ip, w) == IF w # window THEN 0 ELSE Get(userRequests, ip)

\* part_001 line 15: const userCount = userRequests.get(ip) || 0, read at a
\* time of window w: the stored count, whatever the window
ReadCount(ip, w) == Get(userRequests, ip)

\* a rate check that lets the count pass the maximum by one
RateCheckPastMax(userCount) == userCount > MAX_REQUESTS_PER_IP

\* part_001 line 16: the rate check, on the count read at arrival
RateCheck(userCount) == userCount >= MAX_REQUESTS_PER_IP

\* a handler that parses the body before it answers 429
DenyAfterJson(r) == Respond(r, "json", "none", NoText, RateLimited)

\* part_001 lines 17-20: the 429 response, returned before anything else is done
Deny(r) == Respond(r, "arrive", "none", NoText, RateLimited)

\* The handler from its entry to its first await (request.json()), at a time
\* of window w.  route.js has no rate check; part_001 reads the identity and
\* the count, and answers 429 at once when the count has reached the maximum.
\* k bounds the requests in flight and cap the arrivals of one identity.
Arrive(h, b, rt, w, k, cap) ==
  /\ BagCardinality(inflight) < k
  /\ w \in {window, window + 1}
  /\ window' = w
  /\ fresh' = (w # window)
  /\ UNCHANGED << userRequests, hasEnvKey, completed, others >>
  /\ IF rt = "plain"
     THEN /\ inflight' = Suspend(Request(rt, NoHeaders, "", 0, b, "json", NoPrompt))
          /\ done' = Silent
          /\ UNCHANGED << arrived, admitted >>
     ELSE LET ip == ClientIp(h)
              userCount == ReadCount(ip, w)
              r == Request(rt, h, ip, userCount, b, "json", NoPrompt)
          IN /\ arrived[ip] < cap
             /\ arrived' = [arrived EXCEPT ![ip] = @ + 1]
             /\ IF RateCheck(userCount)
                THEN /\ Deny(r)
                     /\ UNCHANGED << inflight, admitted >>
                ELSE /\ inflight' = Suspend(r)
                     /\ done' = Silent
                     /\ admitted' = [admitted EXCEPT ![ip] = @ + 1]

\* a handler that takes the credential for granted
HasGroqKeyAlways == TRUE

\* part_001 line 26: const hasGroqKey = !!process.env.GROQ_API_KEY
HasGroqKey == hasEnvKey

\* request.json() settles; then the credential check and, without a
\* credential, the demonstration response.
JsonSettles(r) ==
  /\ r \in Suspended("json")
  /\ fresh' = FALSE
  /\ UNCHANGED << userRequests, hasEnvKey, window, arrived, admitted, completed, others >>
  /\ IF r.body.kind = "unparseable"
     THEN \* request.json() rejects: the catch block
          /\ inflight' = Resume(r)
          /\ Throw(r, "json", "SyntaxError", "none")
     ELSE IF ~HasGroqKey
     THEN /\ inflight' = Resume(r)
          /\ IF r.body.kind = "null"
             THEN \* patientData.conditions of null throws a TypeError
                  Throw(r, "demo", "TypeError", "none")
             ELSE Respond(r, "demo", "none", NoText, DemoResponse(r.body))
     ELSE /\ inflight' = Resume(r) (+) SetToBag({[r EXCEPT !.pc = "import"]})
          /\ done' = Silent

\* import('groq-sdk') settles; then new Groq, the prompt, and the call of
\* groq.chat.completions.create().
ImportSettles(r, ok) ==
  /\ r \in Suspended("import")
  /\ fresh' = FALSE
  /\ UNCHANGED << userRequests, hasEnvKey, window, arrived, admitted, completed, others >>
  /\ IF ~ok
     THEN /\ inflight' = Resume(r)
          /\ Throw(r, "import", "ImportError", "none")
     ELSE IF r.body.kind = "null"
     THEN \* patientData.age of null throws a TypeError while the prompt is built
          /\ inflight' = Resume(r)
          /\ Throw(r, "prompt", "TypeError", "none")
     ELSE /\ inflight' = Resume(r)
               (+) SetToBag({[r EXCEPT !.pc = "create", !.prompt = Prompt(r.body)]})
          /\ done' = Silent

\* an increment of the count stored now
IncrementStored(r) == Set(userRequests, r.ip, Get(userRequests, r.ip) + 1)

\* part_001 line 87: userRequests.set(ip, userCount + 1), with the count read at arrival
Increment(r) == Set(userRequests, r.ip, r.userCount + 1)

\* groq.chat.completions.create() settles; then (part_001) the counter is
\* written and the response is built from the completion.
CreateSettles(r, outcome, content) ==
  /\ r \in Suspended("create")
  /\ inflight' = Resume(r)
  /\ fresh' = FALSE
  /\ UNCHANGED << hasEnvKey, window, arrived, admitted, others >>
  /\ IF outcome = "threw"
     THEN /\ Throw(r, "create", "APIError", outcome)
          /\ UNCHANGED << userRequests, completed >>
     ELSE /\ userRequests' = IF r.route = "limited" THEN Increment(r) ELSE userRequests
          /\ completed' = IF r.route = "limited"
                          THEN [completed EXCEPT ![r.ip] = @ + 1] ELSE completed
          /\ IF outcome = "nocontent"
             THEN \* choices[0].message.content is not a string: a TypeError
                  Throw(r, "set", "TypeError", outcome)
             ELSE Respond(r, "set", outcome, content, AnalysisResponse(content))

\* the steps of the requests in flight, the model answering with one of texts
Settle(texts) ==
  \/ \E r \in BagToSet(inflight) : JsonSettles(r)
  \/ \E r \in BagToSet(inflight), ok \in BOOLEAN : ImportSettles(r, ok)
  \/ \E r \in BagToSet(inflight), o \in LlmOutcomes, c \in texts :
       CreateSettles(r, o, IF o = "ok" THEN c ELSE NoText)

\* ---------------------------------------------------------- specifications

\* the client 1.2.3.4
OneClient == {h \in Headers : h.xff # "" /\ h.xri = ""}

\* One identity, every body, every model response and both routes, requests
\* interleaving, a few arrivals at the rate-limited route.
Next ==
  \/ \E h \in OneClient, b \in Bodies, rt \in Routes :
       Arrive(h, b, rt, window, MaxInFlight, MaxFlowArrivals)
  \/ Settle(Contents)

Spec == Init /\ [][Next]_vars

\* One identity at the rate-limited route, requests interleaving, the quota
\* followed to its end.
NextQuota ==
  \/ \E h \in OneClient : Arrive(h, ValidBody, "limited", window, MaxInFlight, MaxArrivals)
  \/ Settle({OneText})

SpecQuota == Init /\ [][NextQuota]_vars

\* One identity at the rate-limited route, each request finishing before the
\* next starts, over the windows 0..MaxWindow.
NextSeq ==
  \/ \E h \in OneClient, b \in Bodies, w \in 0..MaxWindow :
       Arrive(h, b, "limited", w, 1, MaxArrivals)
  \/ Settle({OneText})

SpecSeq == Init /\ [][NextSeq]_vars


\* the request that responded in the step just taken
\* Every combination of the two headers at the rate-limited route: the
\* client 1.2.3.4 sends one request after another up to its quota and
\* beyond, the others (with x-real-ip only, with neither header, with both)
\* send a few requests that interleave with them.
NextKeys ==
  \/ \E h \in OneClient : Arrive(h, ValidBody, "limited", window, 1, MaxArrivals)
  \/ \E h \in Headers \ OneClient :
       Arrive(h, ValidBody, "limited", window, MaxInFlight, MaxFlowArrivals)
  \/ Settle({OneText})

SpecKeys == Init /\ [][NextKeys]_vars

\* One request at a time. The runtime resumes a handler whose request.json()
\* or import() has settled, so these steps are taken when they can be; the
\* handler sets no timer on groq.chat.completions.create(), so nothing makes
\* that call settle.
NextLive ==
  \/ \E h \in OneClient, b \in Bodies, rt \in Routes :
       Arrive(h, b, rt, window, 1, MaxFlowArrivals)
  \/ Settle({OneText})

Fairness ==
  /\ WF_vars(\E r \in BagToSet(inflight) : JsonSettles(r))
  /\ WF_vars(\E r \in BagToSet(inflight), ok \in BOOLEAN : ImportSettles(r, ok))

SpecLive == Init /\ [][NextLive]_vars /\ Fairness

\* ------------------------------------------------------- the report alone

\* the patients the page hands over: the form data
Patients == {b \in Bodies : b.kind = "object"}

\* the matches of a results object: those of the route's responses, with
\* every status and with explanations empty, at the route's bound and beyond it
ReportMatches ==
  [nct_id : {"NCT04743505"}, title : {Title("Lung Cancer Study", "")},
   status : Statuses,
   explanation : [says : {"none"}, len : {0, EXPLANATION_SLICE, ANALYSIS_SUBSTRING + 1}]]

\* the results objects handed to the report: lists of up to MaxMatches
\* matches, lists longer than the report shows, and bodies without matches
ReportResults ==
  {JsonOk(200, "Analysis complete", ms) :
     ms \in UNION {[1..n -> ReportMatches] : n \in 0..MaxMatches}}
  \cup {JsonOk(200, "Analysis complete", [i \in 1..(REPORT_TRIALS + 1) |-> m]) :
          m \in ReportMatches}
  \cup {RateLimited, Catch("") }

\* export default function PDFReportButton({ patient, results })
PDFReportButton(patient, results) ==
  /\ report' = IF HasMatches(results) THEN TrialReport(patient, results) ELSE report
  /\ UNCHANGED << userRequests, hasEnvKey, inflight, done, window, fresh, arrived,
                  admitted, completed, proxy, page >>

InitReport ==
  /\ userRequests = EmptyMap
  /\ hasEnvKey = TRUE
  /\ inflight = EmptyBag
  /\ done = Silent
  /\ window = 0
  /\ fresh = FALSE
  /\ arrived = [ip \in Identities |-> 0]
  /\ admitted = [ip \in Identities |-> 0]
  /\ completed = [ip \in Identities |-> 0]
  /\ proxy = NoProxy
  /\ report \in {[NoReport EXCEPT !.patient = p, !.results = r] :
                    p \in Patients, r \in ReportResults}
  /\ page = NoPage

NextReport == ~report.rendered /\ PDFReportButton(report.patient, report.results)

SpecReport == InitReport /\ [][NextReport]_vars

\* ------------------------------------------------------ the proxy variant

\* what the match route and the report hold, which the proxy variant leaves alone
routeVars ==
  << userRequests, hasEnvKey, inflight, done, window, fresh, arrived, admitted,
     completed, report, page >>

\* the JSON bodies the Python backend answers with
BackendResults == {r \in ReportResults : r.status = 200}

\* part_000 lines 29-32
Fallback == JsonOk(200, "Using fallback matching", NoMatch)

\* the catch block is entered: the error is logged and import('groq-sdk') awaited
ProxyCatch(error) ==
  proxy' = [proxy EXCEPT !.pc = "import", !.error = error]

\* a request arrives: request.json() is awaited
ProxyArrive(b) ==
  /\ proxy.pc \in {"idle", "done", "escaped"}
  /\ proxy' = [NoProxy EXCEPT !.pc = "json", !.body = b]
  /\ UNCHANGED routeVars

\* request.json() settles; then fetch() of the Python backend is awaited
ProxyJsonSettles ==
  /\ proxy.pc = "json"
  /\ IF proxy.body.kind = "unparseable"
       THEN ProxyCatch("SyntaxError")
       ELSE proxy' = [proxy EXCEPT !.pc = "fetch"]
  /\ UNCHANGED routeVars

\* fetch() settles: it rejects (no connection), or the backend answered,
\* with a status that is OK or not; then pythonResponse.json() is awaited
ProxyFetchSettles(outcome) ==
  /\ proxy.pc = "fetch"
  /\ CASE outcome = "rejected" -> ProxyCatch("FetchError")
       [] outcome = "notOk" -> ProxyCatch("Python backend error")
       [] outcome = "ok" -> proxy' = [proxy EXCEPT !.pc = "body"]
  /\ UNCHANGED routeVars

\* pythonResponse.json() settles: the body parses to results, which are
\* returned, or it does not parse
ProxyBodySettles(parses, results) ==
  /\ proxy.pc = "body"
  /\ IF parses
       THEN proxy' = [proxy EXCEPT !.pc = "done", !.backend = results, !.resp = results]
       ELSE ProxyCatch("SyntaxError")
  /\ UNCHANGED routeVars

\* import('groq-sdk') of the catch block settles; then new Groq({ apiKey }),
\* whose constructor may reject a missing key, and the fallback response.
\* What is thrown here is thrown outside the try block: it leaves the handler.
ProxyImportSettles(ok, constructs) ==
  /\ proxy.pc = "import"
  /\ HasGroqKey => constructs
  /\ IF ok /\ constructs
       THEN proxy' = [proxy EXCEPT !.pc = "done", !.resp = Fallback]
       ELSE proxy' = [proxy EXCEPT !.pc = "escaped"]
  /\ UNCHANGED routeVars

NextProxy ==
  \/ \E b \in Bodies : ProxyArrive(b)
  \/ ProxyJsonSettles
  \/ \E outcome \in {"rejected", "notOk", "ok"} : ProxyFetchSettles(outcome)
  \/ \E parses \in BOOLEAN, results \in BackendResults : ProxyBodySettles(parses, results)
  \/ \E ok \in BOOLEAN, constructs \in BOOLEAN : ProxyImportSettles(ok, constructs)

SpecProxy == Init /\ [][NextProxy]_vars

\* ------------------------------------------------------- the page's form

\* what the page leaves alone
serverVars ==
  << userRequests, hasEnvKey, inflight, done, window, fresh, arrived, admitted,
     completed, proxy, report >>

\* the JSON bodies /api/match answers with: the responses of the match
\* route (analysis, demonstration, 429, 500) and of the proxy variant
\* (the fallback, the backend's results)
PageData ==
  {AnalysisResponse(c) : c \in Contents}
  \cup {DemoResponse(p) : p \in Patients}
  \cup {RateLimited, Catch(""), Fallback}
  \cup BackendResults

\* a handler that resets loading at the end of its try block only
SetLoadingInTry(threw) == threw

\* finally { setLoading(false) }: the value of loading after the submit
SetLoadingFinally(threw) == FALSE

\* the catch block (console.error, alert) and the finally block
PageCatch ==
  page' = [page EXCEPT !.pc = "idle", !.loading = SetLoadingFinally(TRUE)]

\* the form is submitted: it is rendered under the form tab and its button
\* is disabled while loading; setLoading(true), then fetch() is awaited
handleSubmit ==
  /\ page.activeTab = "form"
  /\ ~page.loading
  /\ page' = [page EXCEPT !.loading = TRUE, !.pc = "fetch"]
  /\ UNCHANGED serverVars

\* fetch('/api/match') settles: it rejects, or response.json() is awaited
PageFetchSettles(ok) ==
  /\ page.pc = "fetch"
  /\ IF ok THEN page' = [page EXCEPT !.pc = "json"] ELSE PageCatch
  /\ UNCHANGED serverVars

\* response.json() settles: setResults(data), setActiveTab('results') and
\* the finally block, or (a body that is not JSON) the catch block
PageJsonSettles(parses, data) ==
  /\ page.pc = "json"
  /\ IF parses
       THEN page' = [page EXCEPT !.results = data, !.activeTab = "results",
                                 !.pc = "idle", !.loading = SetLoadingFinally(FALSE)]
       ELSE PageCatch
  /\ UNCHANGED serverVars

\* a Results button that is never disabled
ResultsDisabledNever == FALSE

\* disabled={!results}
ResultsDisabled == page.results = Null

\* the buttons Patient Information and Back to Form: setActiveTab('form')
ClickForm ==
  /\ page' = [page EXCEPT !.activeTab = "form"]
  /\ UNCHANGED serverVars

\* the button Results: setActiveTab('results')
ClickResults ==
  /\ ~ResultsDisabled
  /\ page' = [page EXCEPT !.activeTab = "results"]
  /\ UNCHANGED serverVars

NextPage ==
  \/ handleSubmit
  \/ \E ok \in BOOLEAN : PageFetchSettles(ok)
  \/ \E parses \in BOOLEAN, data \in PageData : PageJsonSettles(parses, data)
  \/ ClickForm
  \/ ClickResults

SpecPage == Init /\ [][NextPage]_vars

\* --------------------------------------------- the route and the report

\* the page shows the button of the report under results with matches; the
\* patient is the form data that was posted
ShowReport ==
  /\ done.route # "none"
  /\ done.body \in Patients
  /\ HasMatches(done.resp) /\ Len(done.resp.matches) > 0
  /\ PDFReportButton(done.body, done.resp)

\* one request at a time, with every body and every model text, and the
\* report of its response
NextShown ==
  \/ \E h \in OneClient, b \in Bodies, rt \in Routes :
       Arrive(h, b, rt, window, 1, MaxFlowArrivals)
  \/ Settle(Contents)
  \/ ShowReport

SpecShown == Init /\ [][NextShown]_vars

\* ------------------------------------------------------------- properties

Responded == done.route # "none"

Denied == Responded /\ done.resp = RateLimited

Requests == BagToSet(inflight)

\* C1: for every identity, under every interleaving of its requests, the
\* number of requests that pass the rate check never exceeds
\* MAX_REQUESTS_PER_IP.
C1_QuotaNeverExceeded ==
  \A ip \in Identities : admitted[ip] <= MAX_REQUESTS_PER_IP

C3_DeniedDoesNoWork ==
  /\ \A r \in Requests : r.route = "limited" => ~RateCheck(r.userCount)
  /\ Responded /\ done.resp.status = 429 =>
       /\ done.work = {"rateCheck"}
       /\ done.llm = "none" /\ done.prompt = NoPrompt
       /\ RateCheck(done.userCount)
  /\ Responded /\ done.route = "limited" => "rateCheck" \in done.work

\* a request is denied while another request is suspended at an await
C3_Witness == Denied /\ Requests # {}

\* C4, as claimed: the count of an identity is zero again when a new window
\* starts, so the first request of a new window is admitted.
C4_ResetAtWindowStart ==
  fresh => (userRequests = EmptyMap /\ ~Denied)

\* C4, amended: the count of an identity is never reset: a request that
\* arrives as the first of a new window leaves every stored count as it was,
\* and is denied when the stored count of its identity has reached
\* MAX_REQUESTS_PER_IP, as a request inside the window is.
C4_NoResetAtWindowStart ==
  [][ \A ip \in Identities :
        (window' # window /\ arrived'[ip] # arrived[ip]) =>
          /\ userRequests' = userRequests
          /\ Get(userRequests, ip) >= MAX_REQUESTS_PER_IP
               => (done'.resp = RateLimited /\ done'.ip = ip /\ admitted' = admitted)
          /\ Get(userRequests, ip) < MAX_REQUESTS_PER_IP
               => admitted'[ip] = admitted[ip] + 1 ]_vars

\* the first request of a new window is denied, the count being at the maximum
C4_Witness == fresh /\ Denied /\ completed[done.ip] = MAX_REQUESTS_PER_IP

\* C1 on the runs where the credential is set and the LLM call of every
\* admitted request that has finished returned a completion: the quota is
\* then passed only by requests that read the count before another wrote it.
C1_QuotaNeverExceededWhenAllComplete ==
  \A ip \in Identities :
    (hasEnvKey /\ completed[ip] + BagCardinality(inflight) = admitted[ip])
      => admitted[ip] <= MAX_REQUESTS_PER_IP

\* the matches of the response of the step just taken
Matches == done.resp.matches

AllNeedReview == \A i \in DOMAIN Matches : Matches[i].status = "NEEDS_REVIEW"

\* C5: a request whose LLM call fails still gets a success response, in which
\* the candidate has status NEEDS_REVIEW; it never gets an error response.
C5_LlmFailureYieldsNeedsReview ==
  Responded /\ done.llm = "threw" =>
    /\ done.resp.status = 200
    /\ done.resp.keys = {"message", "matches"}
    /\ Matches # << >> /\ AllNeedReview

\* C6: when the model's response text holds no recognizable status token,
\* every returned match has status NEEDS_REVIEW.
C6_NoTokenNeedsReview ==
  Responded /\ done.llm = "ok" /\ done.content.says = "none" =>
    Matches # << >> /\ AllNeedReview

\* a profile the specification accepts: conditions present and not empty,
\* age within 18..120
ValidProfile(b) ==
  b.kind = "object" /\ b.conditions \notin {"undefined", ""} /\ b.age \in 18..120

\* C7: a request whose profile has missing or empty conditions, or an age
\* out of range, never reaches the LLM call and is answered by an error
\* without matches.
C7_InvalidProfileRejected ==
  /\ \A r \in Requests :
       r.body.kind = "object" /\ ~ValidProfile(r.body) => r.pc # "create"
  /\ (Responded /\ ~Denied /\ done.body.kind = "object" /\ ~ValidProfile(done.body)) =>
       /\ "create" \notin done.work
       /\ done.resp.keys = {"error"}
       /\ Matches = << >>

\* C8: with the corpus of two trials, a classified request returns one match
\* per trial, each with the identifier and the title of its trial; when the
\* LLM call fails it returns the two matches with status NEEDS_REVIEW.
C8_OneMatchPerTrial ==
  Responded /\ done.llm \in {"ok", "threw"} =>
    /\ Len(Matches) = Len(SAMPLE_TRIALS)
    /\ \A i \in DOMAIN Matches :
         /\ Matches[i].nct_id = SAMPLE_TRIALS[i].nct_id
         /\ Matches[i].title = Title(SAMPLE_TRIALS[i].title, "")
    /\ done.llm = "threw" => AllNeedReview

DemoMessage == "Running in demo mode (no API key configured)"

\* the response holds exactly the one placeholder match
OnePlaceholder ==
  /\ done.resp.status = 200
  /\ done.resp.message = DemoMessage
  /\ Len(Matches) = 1
  /\ Matches[1].status = "NEEDS_REVIEW"
  /\ Matches[1].nct_id = "NCT-DEMO-001"

\* C9, as claimed: without the credential an admitted request never reaches
\* the LLM call and gets the success response with the one placeholder
\* match; with the credential no request gets the demonstration response.
C9_DemoModeByCredential ==
  /\ ~hasEnvKey =>
       /\ \A r \in Requests : r.pc = "json"
       /\ (Responded /\ ~Denied) => ("create" \notin done.work /\ OnePlaceholder)
  /\ hasEnvKey => ~(Responded /\ done.resp.message = DemoMessage)

\* C9, amended: without the credential an admitted request never reaches the
\* LLM call; it gets the success response with the one placeholder match
\* when its body parses to an object, and the fixed 500 error response when
\* its body does not parse or parses to null.  With the credential no request
\* gets the demonstration response.
C9_DemoModeForParsedBodies ==
  /\ ~hasEnvKey =>
       /\ \A r \in Requests : r.pc = "json"
       /\ (Responded /\ ~Denied) =>
            /\ done.work \subseteq {"rateCheck", "json", "demo"}
            /\ done.llm = "none"
            /\ IF done.body.kind = "object"
               THEN OnePlaceholder
               ELSE done.resp = JsonError(500, "Failed to process request")
  /\ hasEnvKey => ~(Responded /\ done.resp.message = DemoMessage)

\* without the credential a valid request at the rate-limited route gets the placeholder
C9_Witness ==
  /\ ~hasEnvKey /\ Responded /\ OnePlaceholder
  /\ done.route = "limited" /\ done.body = ValidBody

\* C10: every failure while a request is handled (a body that does not
\* parse, a failed import, an exception of the LLM call, a TypeError) ends in
\* the response { error: 'Failed to process request' } with status 500, the
\* same for every failure, and a 500 response comes from nothing else.
C10_FailuresGiveFixedError ==
  /\ (Responded /\ done.error # "none") =>
       done.resp = JsonError(500, "Failed to process request")
  /\ (Responded /\ done.body.kind = "unparseable" /\ ~Denied) => done.error = "SyntaxError"
  /\ (Responded /\ done.llm = "threw") => done.error = "APIError"
  /\ (Responded /\ done.resp.status = 500) =>
       done.error # "none" /\ done.resp.keys = {"error"}
  /\ (Responded /\ done.error = "none") => done.resp.status \in {200, 429}

\* a failed import ends in the fixed error response
C10_Witness ==
  /\ Responded /\ done.error = "ImportError"
  /\ done.resp = JsonError(500, "Failed to process request")

\* C11: every request denied by the rate check (the count it read is at the
\* maximum) is answered with status 429, a non-empty message and an empty
\* matches list, under the keys message and matches of a success response;
\* and status 429 is given to no other request.
C11_DeniedGets429 ==
  /\ (Responded /\ done.route = "limited" /\ done.userCount >= MAX_REQUESTS_PER_IP) =>
       /\ done.resp.status = 429
       /\ done.resp.keys = AnalysisResponse(OneText).keys
       /\ done.resp.message # ""
       /\ done.resp.matches = << >>
       /\ done.resp.error = ""
  /\ (Responded /\ done.resp.status = 429) =>
       done.route = "limited" /\ done.userCount >= MAX_REQUESTS_PER_IP

\* a request that read a count of ten got the 429 response
C11_Witness ==
  /\ Responded /\ done.userCount = MAX_REQUESTS_PER_IP
  /\ done.work = {"rateCheck"} /\ done.resp.status = 429

\* C12: for every results object handed to the report, the three counts per
\* status add up to the total count, and the total count is the length of
\* the matches list; an empty matches list gives four counts of 0.
C12_CountsAddUp ==
  report.rendered =>
    /\ report.eligibleCount + report.notEligibleCount + report.reviewCount
         = report.totalCount
    /\ report.totalCount = Len(report.results.matches)
    /\ report.results.matches = << >> =>
         /\ report.eligibleCount = 0 /\ report.notEligibleCount = 0
         /\ report.reviewCount = 0 /\ report.totalCount = 0

\* a report of two matches of different statuses
C12_Witness ==
  /\ report.rendered /\ report.totalCount = MaxMatches
  /\ report.eligibleCount = 1 /\ report.notEligibleCount = 1

\* a report of an empty matches list
C12_WitnessEmpty == report.rendered /\ report.results.matches = << >>

\* C13: in every response the explanation of a match is at most
\* EXPLANATION_SLICE characters long, and in every rendered report card the
\* analysis text is at most ANALYSIS_SUBSTRING characters long, whatever the
\* length of the model's text.
C13_ExplanationBounded ==
  /\ Responded =>
       \A i \in DOMAIN done.resp.matches :
         done.resp.matches[i].explanation.len <= EXPLANATION_SLICE
  /\ \A i \in DOMAIN report.results.matches :
       report.results.matches[i].explanation.len <= EXPLANATION_SLICE
  /\ \A i \in DOMAIN report.cards : report.cards[i].analysis <= ANALYSIS_SUBSTRING

\* a model text longer than the bound was cut in the response, and the
\* analysis text composed of it was cut in the card
C13_Witness ==
  /\ Responded /\ done.content.len > EXPLANATION_SLICE
  /\ done.resp.matches[1].explanation.len = EXPLANATION_SLICE
  /\ report.rendered /\ report.results = done.resp
  /\ report.cards[1].analysis = ANALYSIS_SUBSTRING

\* C14: in every success response of the match route, in demonstration mode
\* and after a classification, each element of matches has exactly the
\* fields nct_id, title, status and explanation, and its status is one of
\* ELIGIBLE, NOT_ELIGIBLE and NEEDS_REVIEW.
C14_MatchesWellFormed ==
  (Responded /\ done.resp.status = 200) =>
    /\ done.resp.keys = {"message", "matches"}
    /\ \A i \in DOMAIN Matches :
         /\ DOMAIN Matches[i] = {"nct_id", "title", "status", "explanation"}
         /\ Matches[i].status \in Statuses
         /\ Matches[i].nct_id # ""

\* a success response after a classification whose text names no status
C14_Witness ==
  /\ Responded /\ done.resp.status = 200 /\ done.llm = "ok"
  /\ done.content.says = "none" /\ Len(Matches) = 1

\* a success response of demonstration mode
C14_WitnessDemo == Responded /\ done.resp.status = 200 /\ "demo" \in done.work

\* C15: every admitted request eventually produces a response, also when
\* the LLM backend never answers: a request in flight does not stay in
\* flight forever.
C15_AdmittedEventuallyResponds == (inflight # EmptyBag) ~> (inflight = EmptyBag)

\* C16: denial is permanent under any interleaving: the stored count of an
\* identity never decreases, so an identity whose count has reached the
\* maximum (whose requests are denied) stays there, also when a request that
\* read an older count writes its increment late.
C16_DenialPermanent ==
  [][\A ip \in Identities :
       /\ Get(userRequests', ip) >= Get(userRequests, ip)
       /\ RateCheck(Get(userRequests, ip)) => RateCheck(Get(userRequests', ip))]_vars

\* the second half alone: an identity that is being denied stays denied
C16_DeniedStaysDenied ==
  [][\A ip \in Identities :
       RateCheck(Get(userRequests, ip)) => RateCheck(Get(userRequests', ip))]_vars

\* C17: only a request whose LLM call completed successfully consumes
\* quota: a step that ends a request with the 429 response, the
\* demonstration response or the 500 response leaves userRequests unchanged,
\* as does every step that ends no request, and a step that ends a request
\* with the analysis writes (count read at its rate check) + 1 for its identity.
C17_OnlySuccessConsumes ==
  [][IF done'.route = "limited" /\ done'.resp.status = 200 /\ done'.llm = "ok"
       THEN userRequests' = Set(userRequests, done'.ip, done'.userCount + 1)
       ELSE userRequests' = userRequests]_vars

\* C17, amended: the write belongs to the LLM call returning a completion,
\* whatever response follows: such a step writes (count read at the rate
\* check) + 1 for the identity of the request, also when the completion has
\* no content and the request ends with the 500 response; every other step
\* leaves userRequests unchanged.
C17_ReturnedCallConsumes ==
  [][IF done'.route = "limited" /\ done'.llm \in {"ok", "nocontent"}
       THEN userRequests' = Set(userRequests, done'.ip, done'.userCount + 1)
       ELSE userRequests' = userRequests]_vars

\* a request whose completion had no content got the 500 response after its
\* write, which replaced a count that others had advanced
C17_Witness ==
  /\ Responded /\ done.llm = "nocontent" /\ done.resp.status = 500
  /\ completed[done.ip] > done.userCount + 1
  /\ userRequests[done.ip] = done.userCount + 1

\* the stored counts are between 1 and MAX_REQUESTS_PER_IP
CountsInRange ==
  \A ip \in DOMAIN userRequests :
    userRequests[ip] \in 1..MAX_REQUESTS_PER_IP

\* C18: under every interleaving the count stored for an identity is
\* between 1 and MAX_REQUESTS_PER_IP, and an identity with no successful
\* request has no entry: an entry is created only by a step that ends a
\* request of that identity with a success response.
C18_CountInRangeEntryBySuccess ==
  /\ []CountsInRange
  /\ [][\A ip \in DOMAIN userRequests' \ DOMAIN userRequests :
          done'.ip = ip /\ done'.resp.status = 200]_vars

\* C18, amended: under every interleaving the count stored for an identity
\* is between 1 and MAX_REQUESTS_PER_IP, and an identity none of whose LLM
\* calls returned a completion has no entry.
C18_CountInRangeEntryByCompletion ==
  /\ CountsInRange
  /\ \A ip \in DOMAIN userRequests : completed[ip] >= 1
  /\ \A ip \in Identities : completed[ip] = 0 => ip \notin DOMAIN userRequests

\* the count has reached the maximum after more completions than that
C18_Witness ==
  /\ Get(userRequests, "1.2.3.4") = MAX_REQUESTS_PER_IP
  /\ completed["1.2.3.4"] > MAX_REQUESTS_PER_IP
  /\ "unknown" \notin DOMAIN userRequests

\* C19: the key of a request is its x-forwarded-for header, else its
\* x-real-ip header, else 'unknown' (so all requests with neither header
\* share one key); a step changes at most the counter of the key of the
\* request that took it; and whether an arriving request is denied depends
\* on the counter of its own key alone.
C19_OwnCounterOnly ==
  /\ [](\A r \in Requests \cup {done} :
          r.route = "limited" =>
            r.ip = (IF r.headers.xff # "" THEN r.headers.xff
                    ELSE IF r.headers.xri # "" THEN r.headers.xri ELSE "unknown"))
  /\ [][\A ip \in Identities :
          /\ Get(userRequests', ip) # Get(userRequests, ip) =>
               done'.route = "limited" /\ done'.ip = ip
          /\ arrived'[ip] # arrived[ip] =>
               ((done'.resp.status = 429 /\ done'.ip = ip)
                  <=> Get(userRequests, ip) >= MAX_REQUESTS_PER_IP)]_vars

\* while 1.2.3.4 is at its maximum a request with neither header, counted
\* under 'unknown', is admitted and served, and a request with both headers
\* has been counted under 1.2.3.4
C19_Witness ==
  /\ Get(userRequests, "1.2.3.4") = MAX_REQUESTS_PER_IP
  /\ Responded /\ done.headers = NoHeaders /\ done.ip = "unknown"
  /\ done.resp.status = 200 /\ userRequests["unknown"] = 1
  /\ arrived["5.6.7.8"] = 0

\* a request with both headers is served and counted under 1.2.3.4
C19_WitnessBoth ==
  /\ Responded /\ done.headers.xff = "1.2.3.4" /\ done.headers.xri = "5.6.7.8"
  /\ done.resp.status = 200 /\ userRequests = [ip \in {"1.2.3.4"} |-> 1]

\* C20: in the proxy variant every failure on the way to the Python backend
\* (a body that does not parse, a failed connection, a backend status that
\* is not OK) ends in the response { message: 'Using fallback matching',
\* matches: [] } with success status; when the backend answers OK its JSON
\* body is returned unchanged; and no request ends without a response.
C20_ProxyAlwaysResponds ==
  /\ proxy.pc # "escaped"
  /\ (proxy.pc = "done" /\ proxy.error # "none") =>
       (proxy.resp = Fallback /\ proxy.resp.status = 200)
  /\ (proxy.pc = "done" /\ proxy.error = "none") =>
       (proxy.resp = proxy.backend /\ proxy.resp \in BackendResults)

\* the parts of C20 that hold: a request that ends with a response ends
\* with the fallback after a failure and with the backend's body otherwise
C20_ResponsesOfProxy ==
  /\ (proxy.pc = "done" /\ proxy.error # "none") =>
       (proxy.resp = Fallback /\ proxy.resp.status = 200)
  /\ (proxy.pc = "done" /\ proxy.error = "none") =>
       (proxy.resp = proxy.backend /\ proxy.resp \in BackendResults)

\* C21: after any sequence of submits and tab clicks, loading is true
\* exactly while a submit is in flight (it is false again after every
\* submit, whether it stored results or threw), and the active tab is
\* 'results' only when results is not null.
C21_LoadingAndTab ==
  /\ page.loading <=> page.pc # "idle"
  /\ page.activeTab = "results" => page.results # Null
  /\ page.activeTab \in {"form", "results"}

\* a submit has ended and stored the 429 body: loading is false again
\* and the results tab is open
C21_WitnessStored ==
  /\ page.pc = "idle" /\ ~page.loading
  /\ page.results = RateLimited /\ page.activeTab = "results"

\* a submit is in flight, loading is true, and the results of an earlier
\* submit are shown: the Results button was clicked after the submit
C21_Witness ==
  /\ page.pc = "json" /\ page.loading
  /\ page.activeTab = "results" /\ page.results = Fallback

====
